---- MODULE Spec2Model ----
(***************************************************************************)
(* Model of shush's Sensu client (src/sensu/src/client.rs): the resource   *)
(* resolver, the validators and the silence / clear / list executors.      *)
(* Every gateway call (SensuClient::request) is one step whose response    *)
(* is chosen by the environment.                                           *)
(***************************************************************************)
EXTENDS Integers, Sequences, FiniteSets, TLC

VARIABLES
    cmd,        \* which executor runs: "silence", "clear" or "list"
    resources,  \* s.resources : Option<ShushResources>
    checks,     \* s.checks    : Option<Vec<String>>
    sub,        \* ListOpts.sub : Option<pattern>
    chkpat,     \* ListOpts.chk : Option<pattern>
    pc,         \* position in the executor
    map,        \* the node-to-client HashMap of map_to_sensu_resources
    map0,       \* the map as get_node_to_client_map returned it
    idx,        \* position of the iterator over the selector / the array
    mapped,     \* mapped_resources collected so far
    warnings,   \* number of "not associated" warnings printed
    verdicts,   \* one record per validate_client call: name, response kind, result
    subResp,    \* response seen by validate_subscriptions
    chkResp,    \* response seen by validate_checks
    res,        \* resources : Option<Vec<String>> of silence / clear
    chk,        \* checks    : Option<Vec<String>> of silence / clear
    queue,      \* the requests the matched branch will dispatch, in order
    gets,       \* number of GET requests issued
    posts,      \* POST requests issued, in order
    applied,    \* POST requests the gateway answered with Ok
    failed,     \* a POST returned Err
    listResp,   \* response seen by list
    out,        \* lines printed by list
    exit        \* "running", "ok" (Ok(())), "err" (Err returned), "exit1" (process::exit(1))

vars == <<cmd, resources, checks, sub, chkpat, pc, map, map0, idx, mapped, warnings,
          verdicts, subResp, chkResp, res, chk, queue, gets, posts, applied, failed,
          listResp, out, exit>>

\* ---------------------------------------------------------------- bounds
MaxLen == 2

\* ---------------------------------------------------------------- values
None == <<>>
Some(x) == <<x>>
IsSome(o) == Len(o) = 1
Unwrap(o) == o[1]

SeqsUpTo(S, n) == UNION {[1..k -> S] : k \in 1..n}

\* serde_json::Value
JStr(s) == [t |-> "str", s |-> s]
JNum(n) == [t |-> "num", n |-> n]
JBool(b) == [t |-> "bool", b |-> b]
JArr(a) == [t |-> "arr", a |-> a]
JObj(o) == [t |-> "obj", o |-> o]

\* Value::get / Map::get
Get(v, k) == IF v.t = "obj" /\ k \in DOMAIN v.o THEN Some(v.o[k]) ELSE None
\* Value::as_str
AsStr(o) == IF IsSome(o) /\ Unwrap(o).t = "str" THEN Some(Unwrap(o).s) ELSE None

\* Result<Option<Value>, SensuError>
Ok(body) == [kind |-> "Ok", body |-> body]
ErrNotFound == [kind |-> "NotFound", body |-> None]
ErrMessage == [kind |-> "Message", body |-> None]
IsErr(r) == r.kind # "Ok"
IsArray(r) == r.kind = "Ok" /\ IsSome(r.body) /\ Unwrap(r.body).t = "arr"
ArrayOf(r) == Unwrap(r.body).a

\* SensuResource
Client(n) == [kind |-> "Client", name |-> n]
Subscription(n) == [kind |-> "Subscription", name |-> n]
Display(r) == <<r.kind, r.name>>

\* ---------------------------------------------------------------- inputs
NodeIds == {"i-1", "i-2"}
ClientNames == {"web1", "web2"}
SubNames == {"db", "web"}
CheckNames == {"disk", "cpu"}

Selectors ==
    {[res_type |-> "Node", resources |-> s] : s \in SeqsUpTo(NodeIds, MaxLen)}
    \cup {[res_type |-> "Sub", resources |-> s] : s \in SeqsUpTo(SubNames, MaxLen)}
    \cup {[res_type |-> "Client", resources |-> s] : s \in SeqsUpTo(ClientNames, MaxLen)}

\* ---------------------------------------------------------------- gateway responses
cA == JObj([instance_id |-> JStr("i-1"), name |-> JStr("web1"),
            subscriptions |-> JArr(<<JStr("db")>>)])
cB == JObj([instance_id |-> JStr("i-2"), name |-> JStr("web2"),
            subscriptions |-> JArr(<<JStr("web"), JNum(5)>>)])
cC == JObj([name |-> JStr("web1"), subscriptions |-> JStr("db")])
cD == JStr("junk")
cE == JObj([instance_id |-> JStr("i-1"), name |-> JStr("web2")])

ClientsResponses ==
    {ErrNotFound, ErrMessage, Ok(None), Ok(Some(cA))}
    \cup {Ok(Some(JArr(a))) : a \in {<<>>, <<cA>>, <<cB>>, <<cA, cB>>, <<cC, cD>>, <<cA, cE>>}}

ClientResponses == {Ok(Some(cA)), Ok(None), ErrNotFound, ErrMessage}

rA == JObj([check |-> JObj([name |-> JStr("disk")])])
rB == JObj([check |-> JObj([name |-> JStr("cpu")])])
rC == JObj([check |-> JObj([name |-> JNum(5)])])
rD == JObj([check |-> JStr("disk")])
rE == JStr("junk")

ResultsResponses ==
    {ErrNotFound, ErrMessage, Ok(None), Ok(Some(rA))}
    \cup {Ok(Some(JArr(a))) : a \in {<<>>, <<rA>>, <<rA, rB>>, <<rC, rD, rE>>, <<rB, rC, rB>>}}

PostResponses == {Ok(None), Ok(Some(JObj(<<>>))), ErrNotFound, ErrMessage}

\* ---------------------------------------------------------------- get_node_to_client_map
EmptyMap == <<>>
Insert(m, k, v) == [x \in DOMAIN m \cup {k} |-> IF x = k THEN v ELSE m[x]]
Remove_Keep(m, k) == m

Remove(m, k) == [x \in DOMAIN m \ {k} |-> m[x]]

RECURSIVE InsertClients(_, _, _)
InsertClients(m, v, i) ==
    IF i > Len(v) THEN m
    ELSE LET iid == AsStr(Get(v[i], "instance_id"))
             client == AsStr(Get(v[i], "name"))
         IN  IF IsSome(iid) /\ IsSome(client)
             THEN InsertClients(Insert(m, Unwrap(iid), Unwrap(client)), v, i + 1)
             ELSE InsertClients(m, v, i + 1)

NodeToClientMap(clients) ==
    IF IsArray(clients) THEN InsertClients(EmptyMap, ArrayOf(clients), 1) ELSE EmptyMap

\* ---------------------------------------------------------------- validate_client
validate_client_OkOnly(resp) == resp.kind = "Ok"

validate_client(resp) == IF resp.kind = "NotFound" THEN FALSE ELSE TRUE

\* ---------------------------------------------------------------- validate_subscriptions
RECURSIVE CollectStrings(_, _)
CollectStrings(arr, i) ==
    IF i > Len(arr) THEN {}
    ELSE (IF arr[i].t = "str" THEN {arr[i].s} ELSE {}) \cup CollectStrings(arr, i + 1)

RECURSIVE CollectSubscriptions(_, _)
CollectSubscriptions(vec, i) ==
    IF i > Len(vec) THEN {}
    ELSE LET s == Get(vec[i], "subscriptions")
         IN  (IF IsSome(s) /\ Unwrap(s).t = "arr" THEN CollectStrings(Unwrap(s).a, 1) ELSE {})
             \cup CollectSubscriptions(vec, i + 1)

RECURSIVE Filter_Dedup(_, _, _)
Filter_Dedup(seq, set, i) ==
    IF i > Len(seq) THEN <<>>
    ELSE (IF seq[i] \in set /\ \A k \in 1..(i - 1) : seq[k] # seq[i] THEN <<seq[i]>> ELSE <<>>)
         \o Filter_Dedup(seq, set, i + 1)

RECURSIVE Filter(_, _, _)
Filter(seq, set, i) ==
    IF i > Len(seq) THEN <<>>
    ELSE (IF seq[i] \in set THEN <<seq[i]>> ELSE <<>>) \o Filter(seq, set, i + 1)

RECURSIVE FilterResources(_, _, _)
FilterResources(seq, set, i) ==
    IF i > Len(seq) THEN <<>>
    ELSE (IF seq[i].name \in set THEN <<seq[i]>> ELSE <<>>) \o FilterResources(seq, set, i + 1)

validate_subscriptions(subscriptions, resp) ==
    IF IsErr(resp) THEN subscriptions
    ELSE IF IsArray(resp)
         THEN FilterResources(subscriptions, CollectSubscriptions(ArrayOf(resp), 1), 1)
         ELSE subscriptions

\* ---------------------------------------------------------------- validate_checks
RECURSIVE CollectCheckNames(_, _)
CollectCheckNames(vec, i) ==
    IF i > Len(vec) THEN {}
    ELSE LET c == Get(vec[i], "check")
             n == IF IsSome(c) THEN AsStr(Get(Unwrap(c), "name")) ELSE None
         IN  (IF IsSome(n) THEN {Unwrap(n)} ELSE {}) \cup CollectCheckNames(vec, i + 1)

validate_checks_DropOnError(cks, resp) ==
    IF IsErr(resp) THEN <<>>
    ELSE IF IsArray(resp)
         THEN Filter(cks, CollectCheckNames(ArrayOf(resp), 1), 1)
         ELSE cks

validate_checks(cks, resp) ==
    IF IsErr(resp) THEN cks
    ELSE IF IsArray(resp)
         THEN Filter(cks, CollectCheckNames(ArrayOf(resp), 1), 1)
         ELSE cks

\* ---------------------------------------------------------------- map_to_sensu_resources
\* line 146: the map is fetched before the selector type is examined
AfterMap(res_type) ==
    CASE res_type = "Node" -> "node"
      [] res_type = "Sub" -> "sub"
      [] res_type = "Client" -> "client"

Selector == Unwrap(resources)
Ids == Selector.resources

RECURSIVE Stringify(_, _)
Stringify(rs, i) == IF i > Len(rs) THEN <<>> ELSE <<Display(rs[i])>> \o Stringify(rs, i + 1)

RECURSIVE Wrap(_, _)
Wrap(names, i) == IF i > Len(names) THEN <<>> ELSE <<Subscription(names[i])>> \o Wrap(names, i + 1)

\* the filter_map closure of the Node arm on an id the map holds
NodeFound(val, resp) == IF validate_client(resp) THEN <<Client(val)>> ELSE <<>>
NodeMissing_Keep(v) == [add |-> <<Client(v)>>, warn |-> 0]

\* the filter_map closure of the Node arm on an id the map does not hold
NodeMissing(v) == [add |-> <<>>, warn |-> 1]
\* the filter_map closure of the Client arm
ClientItem(c, resp) == IF validate_client(resp) THEN <<Client(c)>> ELSE <<>>

\* collect() and the caller's stringification once the iterator is exhausted
Collected(m) ==
    /\ mapped' = m
    /\ IF idx = Len(Ids)
       THEN /\ res' = Some(Stringify(m, 1))
            /\ pc' = "checks"
       ELSE /\ pc' = pc
            /\ res' = res
    /\ idx' = idx + 1

GetNodeToClientMap ==
    /\ pc = "map"
    /\ \E resp \in ClientsResponses :
         /\ gets' = gets + 1
         /\ IF IsErr(resp)
            THEN /\ exit' = "err"
                 /\ pc' = "done"
                 /\ UNCHANGED <<map, map0, idx>>
            ELSE /\ map' = NodeToClientMap(resp)
                 /\ map0' = map'
                 /\ idx' = 1
                 /\ pc' = AfterMap(Selector.res_type)
                 /\ exit' = exit
    /\ UNCHANGED <<cmd, resources, checks, sub, chkpat, mapped, warnings, verdicts, subResp,
                   chkResp, res, chk, queue, posts, applied, failed, listResp, out>>

ResolveNode ==
    /\ pc = "node"
    /\ LET v == Ids[idx] IN
         \/ /\ v \in DOMAIN map
            /\ map' = Remove(map, v)
            /\ \E resp \in ClientResponses :
                 /\ gets' = gets + 1
                 /\ verdicts' = Append(verdicts, [name |-> map[v], kind |-> resp.kind,
                                                  valid |-> validate_client(resp)])
                 /\ Collected(mapped \o NodeFound(map[v], resp))
            /\ UNCHANGED warnings
         \/ /\ v \notin DOMAIN map
            /\ warnings' = warnings + NodeMissing(v).warn
            /\ Collected(mapped \o NodeMissing(v).add)
            /\ UNCHANGED <<map, gets, verdicts>>
    /\ UNCHANGED <<cmd, resources, checks, sub, chkpat, map0, subResp, chkResp, chk, queue,
                   posts, applied, failed, listResp, out, exit>>

ResolveSub ==
    /\ pc = "sub"
    /\ \E resp \in ClientsResponses :
         /\ gets' = gets + 1
         /\ subResp' = Some(resp)
         /\ mapped' = validate_subscriptions(Wrap(Ids, 1), resp)
         /\ res' = Some(Stringify(mapped', 1))
    /\ pc' = "checks"
    /\ UNCHANGED <<cmd, resources, checks, sub, chkpat, map, map0, idx, warnings, verdicts,
                   chkResp, chk, queue, posts, applied, failed, listResp, out, exit>>

ResolveClient ==
    /\ pc = "client"
    /\ \E resp \in ClientResponses :
         /\ gets' = gets + 1
         /\ verdicts' = Append(verdicts, [name |-> Ids[idx], kind |-> resp.kind,
                                          valid |-> validate_client(resp)])
         /\ Collected(mapped \o ClientItem(Ids[idx], resp))
    /\ UNCHANGED <<cmd, resources, checks, sub, chkpat, map, map0, warnings, subResp, chkResp,
                   chk, queue, posts, applied, failed, listResp, out, exit>>

\* ---------------------------------------------------------------- silence / clear
Payload(endpoint, r, c, expire) == [endpoint |-> endpoint, res |-> r, chk |-> c, expire |-> expire]

Endpoint == IF cmd = "silence" THEN "Silenced" ELSE "Clear"
Expire == IF cmd = "silence" THEN Some("expire") ELSE None

RECURSIVE Row(_, _, _)
Row(r, c, j) ==
    IF j > Len(c) THEN <<>>
    ELSE <<Payload(Endpoint, Some(r), Some(c[j]), Expire)>> \o Row(r, c, j + 1)

RECURSIVE Product_Zip(_, _, _)
Product_Zip(r, c, i) ==
    IF i > Len(r) \/ i > Len(c) THEN <<>>
    ELSE <<Payload(Endpoint, Some(r[i]), Some(c[i]), Expire)>> \o Product_Zip(r, c, i + 1)

\* iproduct!(res, chk): the first list is the outer loop
RECURSIVE Product(_, _, _)
Product(r, c, i) == IF i > Len(r) THEN <<>> ELSE Row(r[i], c, 1) \o Product(r, c, i + 1)

RECURSIVE ResOnly(_, _)
ResOnly(r, i) ==
    IF i > Len(r) THEN <<>>
    ELSE <<Payload(Endpoint, Some(r[i]), None, Expire)>> \o ResOnly(r, i + 1)

RECURSIVE ChkOnly(_, _)
ChkOnly(c, j) ==
    IF j > Len(c) THEN <<>>
    ELSE <<Payload(Endpoint, None, Some(c[j]), Expire)>> \o ChkOnly(c, j + 1)

\* the requests of the branch that match (resources, checks) selects
Dispatch(r, c) ==
    CASE IsSome(r) /\ IsSome(c) -> Product(Unwrap(r), Unwrap(c), 1)
      [] IsSome(r) /\ ~IsSome(c) -> ResOnly(Unwrap(r), 1)
      [] ~IsSome(r) /\ IsSome(c) -> ChkOnly(Unwrap(c), 1)
      [] OTHER -> <<>>

NoTargets_Never(r, c) == FALSE

\* the (_, _) arm
NoTargets(r, c) == ~IsSome(r) /\ ~IsSome(c)

\* match (resources, checks): entered with the validated check list c
Match(c) ==
    /\ chk' = c
    /\ queue' = Dispatch(res, c)
    /\ idx' = 1
    /\ IF NoTargets(res, c)
       THEN pc' = "done" /\ exit' = "exit1"
       ELSE IF Len(queue') = 0
            THEN pc' = "done" /\ exit' = "ok"
            ELSE pc' = "post" /\ exit' = exit

SilenceChecks ==
    /\ pc = "checks"
    /\ cmd = "silence"
    /\ \/ /\ IsSome(checks)
          /\ \E resp \in ResultsResponses :
               /\ gets' = gets + 1
               /\ chkResp' = Some(resp)
               /\ Match(Some(validate_checks(Unwrap(checks), resp)))
       \/ /\ ~IsSome(checks)
          /\ Match(None)
          /\ UNCHANGED <<gets, chkResp>>
    /\ UNCHANGED <<cmd, resources, checks, sub, chkpat, map, map0, mapped, warnings, verdicts,
                   subResp, res, posts, applied, failed, listResp, out>>

ClearChecks ==
    /\ pc = "checks"
    /\ cmd = "clear"
    /\ Match(checks)
    /\ UNCHANGED <<cmd, resources, checks, sub, chkpat, map, map0, mapped, warnings, verdicts,
                   subResp, chkResp, res, gets, posts, applied, failed, listResp, out>>

ExitOnError_Ignored(resp) == FALSE

\* the map_err closure of a dispatch: process::exit(1) on Err
ExitOnError(resp) == IsErr(resp)

Post ==
    /\ pc = "post"
    /\ \E resp \in PostResponses :
         /\ posts' = Append(posts, queue[idx])
         /\ failed' = (failed \/ IsErr(resp))
         /\ applied' = IF IsErr(resp) THEN applied ELSE Append(applied, queue[idx])
         /\ IF ExitOnError(resp)
            THEN /\ pc' = "done"
                 /\ exit' = "exit1"
                 /\ idx' = idx
            ELSE /\ idx' = idx + 1
                 /\ IF idx = Len(queue)
                    THEN pc' = "done" /\ exit' = "ok"
                    ELSE pc' = pc /\ exit' = exit
    /\ UNCHANGED <<cmd, resources, checks, sub, chkpat, map, map0, mapped, warnings, verdicts,
                   subResp, chkResp, res, chk, queue, gets, listResp, out>>

\* ---------------------------------------------------------------- list
\* strings the patterns are matched against are sequences of characters
S_db == <<"d", "b">>
S_disk == <<"d", "i", "s", "k">>
S_cpu == <<"c", "p", "u">>
S_all == <<"a", "l", "l">>
S_unknown == <<"u", "n", "k", "n", "o", "w", "n">>
S_alice == <<"a", "l", "i", "c", "e">>
DotStar == <<".", "*">>

SubPatterns == {None, Some(S_db), Some(<<"^">> \o S_all \o <<"$">>), Some(<<"(">>)}
ChkPatterns == {None, Some(S_disk), Some(<<"c">>), Some(<<"^", "d">>), Some(<<"(">>)}

sA == JObj([subscription |-> JStr(S_db), check |-> JStr(S_disk), creator |-> JStr(S_alice),
            expire |-> JNum(600), expire_on_resolve |-> JBool(TRUE)])
sB == JObj([check |-> JStr(S_cpu)])
sC == JObj([subscription |-> JNum(5), check |-> JStr(S_disk), expire |-> JStr(S_db)])
sD == JStr(S_db)

SilencedResponses ==
    {ErrNotFound, ErrMessage, Ok(None), Ok(Some(sA)), Ok(Some(JArr(<<>>)))}
    \cup {Ok(Some(JArr(a))) : a \in SeqsUpTo({sA, sB, sC, sD}, MaxLen)}

\* RegexBuilder::new(string.unwrap_or(".*")).build(): an optional ^, a body that is
\* .* or a literal, an optional $; an unbalanced group does not compile
compile_regex(string) ==
    LET p == IF IsSome(string) THEN Unwrap(string) ELSE DotStar
        start == Len(p) > 0 /\ p[1] = "^"
        p1 == IF start THEN Tail(p) ELSE p
        end == Len(p1) > 0 /\ p1[Len(p1)] = "$"
        body == IF end THEN SubSeq(p1, 1, Len(p1) - 1) ELSE p1
    IN  [ok |-> \A i \in 1..Len(body) : body[i] \notin {"(", ")"},
         start |-> start, end |-> end, any |-> body = DotStar, lit |-> body]

\* Regex::is_match: an unanchored search
is_match(re, s) ==
    \E i \in 1..(Len(s) + 1) : \E j \in (i - 1)..Len(s) :
        /\ re.start => i = 1
        /\ re.end => j = Len(s)
        /\ re.any \/ SubSeq(s, i, j) = re.lit

UnwrapOr(o, d) == IF IsSome(o) THEN Unwrap(o) ELSE d

AsU64(o) == IF IsSome(o) /\ Unwrap(o).t = "num" THEN Some(Unwrap(o).n) ELSE None
AsBool(o) == IF IsSome(o) /\ Unwrap(o).t = "bool" THEN Some(Unwrap(o).b) ELSE None

\* the fields list extracts from one entry, with their defaults
Extract(o) ==
    [k |-> "record",
     user |-> UnwrapOr(AsStr(Get(o, "creator")), S_unknown),
     subscription |-> UnwrapOr(AsStr(Get(o, "subscription")), S_all),
     check |-> UnwrapOr(AsStr(Get(o, "check")), S_all),
     expire |-> AsU64(Get(o, "expire")),
     eor |-> UnwrapOr(AsBool(Get(o, "expire_on_resolve")), FALSE)]

Printed_Either(sub_regex, chk_regex, e) ==
    is_match(sub_regex, e.subscription) \/ is_match(chk_regex, e.check)

\* the condition under which the loop body prints the entry (line 488 negated)
Printed(sub_regex, chk_regex, e) ==
    ~(~is_match(sub_regex, e.subscription) \/ ~is_match(chk_regex, e.check))

\* the v.is_empty() test that guards the "No silences" line
NoSilences(v) == Len(v) = 0

Header == [k |-> "header"]
NoSilencesLine == [k |-> "none"]

ListFetch ==
    /\ pc = "list"
    /\ IF ~compile_regex(sub).ok \/ ~compile_regex(chkpat).ok
       THEN /\ pc' = "done"
            /\ exit' = "err"
            /\ UNCHANGED <<gets, listResp, out, idx>>
       ELSE \E resp \in SilencedResponses :
              /\ gets' = gets + 1
              /\ listResp' = Some(resp)
              /\ idx' = 1
              /\ IF IsErr(resp)
                 THEN pc' = "done" /\ exit' = "err" /\ out' = <<Header>>
                 ELSE IF IsArray(resp)
                      THEN IF NoSilences(ArrayOf(resp))
                           THEN pc' = "done" /\ exit' = "ok" /\ out' = <<Header, NoSilencesLine>>
                           ELSE pc' = "entries" /\ exit' = exit /\ out' = <<Header>>
                      ELSE pc' = "done" /\ exit' = "ok" /\ out' = <<Header>>
    /\ UNCHANGED <<cmd, resources, checks, sub, chkpat, map, map0, mapped, warnings, verdicts,
                   subResp, chkResp, res, chk, queue, posts, applied, failed>>

ListEntry ==
    /\ pc = "entries"
    /\ LET v == ArrayOf(Unwrap(listResp))
           obj == v[idx]
       IN  /\ out' = IF obj.t = "obj"
                        /\ Printed(compile_regex(sub), compile_regex(chkpat), Extract(obj))
                     THEN Append(out, Extract(obj))
                     ELSE out
           /\ idx' = idx + 1
           /\ IF idx = Len(v)
              THEN pc' = "done" /\ exit' = "ok"
              ELSE pc' = pc /\ exit' = exit
    /\ UNCHANGED <<cmd, resources, checks, sub, chkpat, map, map0, mapped, warnings, verdicts,
                   subResp, chkResp, res, chk, queue, gets, posts, applied, failed, listResp>>

\* ---------------------------------------------------------------- specification
Init ==
    /\ cmd \in {"silence", "clear", "list"}
    /\ IF cmd = "list"
       THEN /\ resources = None
            /\ checks = None
            /\ sub \in SubPatterns
            /\ chkpat \in ChkPatterns
            /\ pc = "list"
       ELSE /\ resources \in {None} \cup {Some(s) : s \in Selectors}
            /\ checks \in {None} \cup {Some(c) : c \in SeqsUpTo(CheckNames, MaxLen)}
            /\ sub = None
            /\ chkpat = None
            /\ pc = IF IsSome(resources) THEN "map" ELSE "checks"
    /\ map = EmptyMap
    /\ map0 = EmptyMap
    /\ idx = 1
    /\ mapped = <<>>
    /\ warnings = 0
    /\ verdicts = <<>>
    /\ subResp = None
    /\ chkResp = None
    /\ res = None
    /\ chk = None
    /\ queue = <<>>
    /\ gets = 0
    /\ posts = <<>>
    /\ applied = <<>>
    /\ failed = FALSE
    /\ listResp = None
    /\ out = <<>>
    /\ exit = "running"

Next ==
    \/ GetNodeToClientMap
    \/ ResolveNode
    \/ ResolveSub
    \/ ResolveClient
    \/ SilenceChecks
    \/ ClearChecks
    \/ Post
    \/ ListFetch
    \/ ListEntry

Spec == Init /\ [][Next]_vars

\* ---------------------------------------------------------------- properties
IsDispatch == cmd \in {"silence", "clear"}
HasSelector(t) == IsDispatch /\ IsSome(resources) /\ Selector.res_type = t
Range(f) == {f[i] : i \in DOMAIN f}

\* C1: when silence or clear ends with Ok after matching (Some(res), Some(chk)), the
\* POSTs issued are exactly one per (resource, check) pair, in cross-product order:
\* their number is |res| * |chk|, res being the resolved list and chk the validated
\* (silence) or given (clear) list.
C1_CrossProductCount ==
    (IsDispatch /\ pc = "done" /\ exit = "ok" /\ IsSome(res) /\ IsSome(chk)) =>
        LET r == Unwrap(res)
            c == Unwrap(chk)
        IN  /\ Len(posts) = Len(r) * Len(c)
            /\ applied = posts
            /\ \A i \in 1..Len(r) : \A j \in 1..Len(c) :
                 posts[(i - 1) * Len(c) + j] = Payload(Endpoint, Some(r[i]), Some(c[j]), Expire)
            /\ r = [k \in 1..Len(mapped) |-> Display(mapped[k])]
            /\ cmd = "clear" => chk = checks

C1_Witness ==
    /\ IsDispatch /\ pc = "done" /\ exit = "ok" /\ IsSome(res) /\ IsSome(chk)
    /\ Len(Unwrap(res)) = 2 /\ Len(Unwrap(chk)) = 2 /\ Len(posts) = 4
    /\ Unwrap(res)[1] # Unwrap(res)[2] /\ Unwrap(chk)[1] # Unwrap(chk)[2]

\* C2: once a POST has returned an error the process has exited with code 1: the
\* failed request is the last one issued, it was issued once, the requests before it
\* are the ones applied, and no further step is possible.
C2_FirstFailureExits ==
    failed =>
        /\ pc = "done"
        /\ exit = "exit1"
        /\ Len(posts) = Len(applied) + 1
        /\ Len(posts) <= Len(queue)
        /\ posts = SubSeq(queue, 1, Len(posts))
        /\ applied = SubSeq(queue, 1, Len(applied))
        /\ ~ENABLED Next

C2_Witness ==
    /\ failed /\ IsSome(res) /\ IsSome(chk)
    /\ Len(applied) >= 1
    /\ Len(posts) < Len(queue)

\* C3: in a Node resolution whose map was fetched, every input id without an entry in
\* the map yields a warning and no resource; the resolution returns Ok with resources
\* that all come from mapped ids.
C3_UnmappedNodeIdDropped ==
    (HasSelector("Node") /\ pc # "map" /\ exit # "err") =>
        LET seen == IF pc = "node" THEN idx - 1 ELSE Len(Ids)
            unmapped == {k \in 1..seen : Ids[k] \notin DOMAIN map0}
        IN  /\ warnings >= Cardinality(unmapped)
            /\ Len(mapped) <= seen - Cardinality(unmapped)
            /\ \A k \in 1..Len(mapped) :
                 /\ mapped[k].kind = "Client"
                 /\ \E j \in 1..seen : Ids[j] \in DOMAIN map0 /\ map0[Ids[j]] = mapped[k].name
            /\ Cardinality(unmapped) = seen => (mapped = <<>> /\ warnings = seen)
            /\ pc # "node" => (IsSome(res) /\ Len(Unwrap(res)) = Len(mapped))

C3_Witness ==
    /\ HasSelector("Node") /\ pc = "done" /\ exit = "ok"
    /\ Len(Ids) = 2
    /\ Ids[1] \notin DOMAIN map0
    /\ Ids[2] \in DOMAIN map0
    /\ warnings = 1
    /\ Len(mapped) = 1

\* C4: a validator whose fetch returned an error or a body that is not an array
\* returned its input list unchanged.
C4_FetchFailureKeepsInput ==
    /\ (IsSome(chkResp) /\ ~IsArray(Unwrap(chkResp))) => chk = checks
    /\ (IsSome(subResp) /\ ~IsArray(Unwrap(subResp))) =>
           mapped = [k \in 1..Len(Ids) |-> Subscription(Ids[k])]

C4_Witness ==
    /\ IsSome(chkResp) /\ Unwrap(chkResp).kind = "NotFound"
    /\ IsSome(subResp) /\ Unwrap(subResp).kind = "Ok" /\ ~IsArray(Unwrap(subResp))
    /\ Len(Unwrap(checks)) = 2 /\ Len(Ids) = 2
    /\ Len(mapped) = 2 /\ Len(Unwrap(chk)) = 2

\* C5: validate_client answered false exactly for the NotFound responses, and the
\* clients a Node or Client resolution kept are exactly those whose request did not
\* return NotFound.
C5_ValidateClientOnly404 ==
    /\ \A k \in 1..Len(verdicts) : verdicts[k].valid = (verdicts[k].kind # "NotFound")
    /\ (HasSelector("Node") \/ HasSelector("Client")) =>
           LET kept == SelectSeq(verdicts, LAMBDA v : v.kind # "NotFound")
           IN  mapped = [k \in 1..Len(kept) |-> Client(kept[k].name)]

C5_Witness ==
    /\ HasSelector("Client") /\ pc = "done"
    /\ Len(verdicts) = 2
    /\ verdicts[1].kind = "NotFound" /\ ~verdicts[1].valid
    /\ verdicts[2].kind = "Message" /\ verdicts[2].valid
    /\ mapped = <<Client(Ids[2])>>

\* C6: silence or clear invoked with neither resources nor checks issues no gateway
\* request and ends with process::exit(1).
C6_NoTargetsNoRequests ==
    (IsDispatch /\ ~IsSome(resources) /\ ~IsSome(checks)) =>
        /\ gets = 0
        /\ posts = <<>>
        /\ pc = "done" => exit = "exit1"
        /\ pc # "done" => (pc = "checks" /\ exit = "running")

C6_Witness ==
    IsDispatch /\ ~IsSome(resources) /\ ~IsSome(checks) /\ pc = "done" /\ exit = "exit1"

\* C7: a silence or clear that ends without having had any target to dispatch to ends
\* with exit code 1.
C7_NoResolvableTargetsExit1 ==
    (IsDispatch /\ pc = "done" /\ exit # "err" /\ Len(queue) = 0) => exit = "exit1"

\* C8: resolving a Subscription selector never returns an error, and when the fetch of
\* the validation fails the result is every input name wrapped, in input order.
C8_SubscriptionFailSoft ==
    HasSelector("Sub") =>
        /\ exit # "err"
        /\ (IsSome(subResp) /\ IsErr(Unwrap(subResp))) =>
               mapped = [k \in 1..Len(Ids) |-> Subscription(Ids[k])]

\* C9: list prints a record for exactly the entries that are objects whose
\* subscription and check (each "all" when not given as a string) match the two
\* patterns, in order; "No silences" is printed exactly when the array is empty.
C9_Field(e, k) ==
    IF k \in DOMAIN e.o /\ e.o[k].t = "str" THEN e.o[k].s ELSE S_all

C9_ListPrintsMatching ==
    (cmd = "list" /\ pc = "done" /\ exit = "ok") =>
        LET resp == Unwrap(listResp)
            v == IF IsArray(resp) THEN ArrayOf(resp) ELSE <<>>
            shown == SelectSeq(v, LAMBDA e :
                        /\ e.t = "obj"
                        /\ is_match(compile_regex(sub), C9_Field(e, "subscription"))
                        /\ is_match(compile_regex(chkpat), C9_Field(e, "check")))
            records == SelectSeq(out, LAMBDA l : l.k = "record")
        IN  /\ Len(records) = Len(shown)
            /\ \A k \in 1..Len(records) :
                 /\ records[k].subscription = C9_Field(shown[k], "subscription")
                 /\ records[k].check = C9_Field(shown[k], "check")
            /\ (NoSilencesLine \in Range(out)) <=> (IsArray(resp) /\ Len(v) = 0)

C9_Witness ==
    /\ cmd = "list" /\ pc = "done" /\ exit = "ok"
    /\ IsSome(sub) /\ IsSome(chkpat)
    /\ IsArray(Unwrap(listResp))
    /\ Len(ArrayOf(Unwrap(listResp))) = 2
    /\ \A i \in 1..2 : ArrayOf(Unwrap(listResp))[i].t = "obj"
    /\ out = <<Header, Extract(sA)>>

\* C10: a validator whose fetch returned an array returned exactly the candidates that
\* are members of the observed set, in input order and with duplicates kept.
C10_ValidatorsFilterByMembership ==
    /\ (IsSome(chkResp) /\ IsArray(Unwrap(chkResp))) =>
           LET v == ArrayOf(Unwrap(chkResp))
               observed == {n \in CheckNames : \E i \in 1..Len(v) :
                               /\ v[i].t = "obj"
                               /\ "check" \in DOMAIN v[i].o
                               /\ v[i].o.check.t = "obj"
                               /\ "name" \in DOMAIN v[i].o.check.o
                               /\ v[i].o.check.o.name = JStr(n)}
           IN  chk = Some(SelectSeq(Unwrap(checks), LAMBDA c : c \in observed))
    /\ (IsSome(subResp) /\ IsArray(Unwrap(subResp))) =>
           LET v == ArrayOf(Unwrap(subResp))
               observed == {n \in SubNames : \E i \in 1..Len(v) :
                               /\ v[i].t = "obj"
                               /\ "subscriptions" \in DOMAIN v[i].o
                               /\ v[i].o.subscriptions.t = "arr"
                               /\ JStr(n) \in Range(v[i].o.subscriptions.a)}
               kept == SelectSeq(Ids, LAMBDA n : n \in observed)
           IN  mapped = [k \in 1..Len(kept) |-> Subscription(kept[k])]

C10_Witness ==
    /\ IsSome(chkResp) /\ IsArray(Unwrap(chkResp))
    /\ Unwrap(checks) = <<"disk", "disk">>
    /\ chk = checks
    /\ IsSome(subResp) /\ IsArray(Unwrap(subResp))
    /\ Ids = <<"web", "db">>
    /\ mapped = <<Subscription("web"), Subscription("db")>>

\* C11: within one Node resolution each lookup removes its entry: the map left is the
\* fetched map without the ids seen so far, every occurrence of an id that is unmapped
\* or was seen before yields a warning and no resource, only first occurrences of
\* mapped ids reach validate_client, and the resolved list is never longer than the
\* number of distinct mapped ids of the input.
C11_MapConsumedDestructively ==
    (HasSelector("Node") /\ pc # "map" /\ exit # "err") =>
        LET seen == IF pc = "node" THEN idx - 1 ELSE Len(Ids)
            first == {k \in 1..seen :
                        Ids[k] \in DOMAIN map0 /\ \A j \in 1..(k - 1) : Ids[j] # Ids[k]}
            distinct == {Ids[k] : k \in 1..Len(Ids)} \cap DOMAIN map0
        IN  /\ DOMAIN map = DOMAIN map0 \ {Ids[k] : k \in 1..seen}
            /\ \A i \in DOMAIN map : map[i] = map0[i]
            /\ warnings = seen - Cardinality(first)
            /\ Len(verdicts) = Cardinality(first)
            /\ Len(mapped) <= Cardinality(first)
            /\ Len(mapped) <= Cardinality(distinct)

C11_Witness ==
    /\ HasSelector("Node") /\ pc = "done" /\ exit = "ok"
    /\ Ids = <<"i-1", "i-1">>
    /\ "i-1" \in DOMAIN map0
    /\ Len(mapped) = 1
    /\ warnings = 1

====
